---- MODULE Spec2Model ----
(***************************************************************************)
(* SAMLAuthenticationProvider (x-pack security, SAML provider).            *)
(*                                                                         *)
(* Strings are sequences of one-character strings, so that formatting      *)
(* (`Bearer ${token}`), splitting on whitespace and lower-casing are       *)
(* computed.  A provider state (ProviderState) is a partial function from  *)
(* field names to strings, wrapped with a flag telling null from an        *)
(* object.  Every backend RPC is one atomic step of the call that awaits   *)
(* it; the code between two awaits runs with it.                           *)
(***************************************************************************)
EXTENDS Integers, Sequences, FiniteSets, TLC

VARIABLES
    pc,         \* per call: the strategy the call is about to run
    req,        \* per call: the request object (headers.authorization is mutated)
    st,         \* per call: the `state` argument
    result,     \* per call: authenticationResult
    ctx,        \* per call: who called authenticateViaHandshake
    fresh,      \* per call: tokens returned by getAccessToken (locals of the refresh strategy)
    attempts,   \* per call: history of the strategies entered
    rpcs,       \* per call: history of the backend calls made
    entryAuth,  \* per call: request.headers.authorization when authenticate was entered
    es,         \* the backend's token store
    faults,     \* whether the backend may answer any call with an arbitrary error
    out,        \* per call: the arguments, backend calls and result of deauthenticate
    session     \* the caller's session: the persisted state and what it has seen

vars == <<pc, req, st, result, ctx, fresh, attempts, rpcs, entryAuth, es, faults, out, session>>

\* Number of authenticate calls that can be in flight.
NumProcs == 2

Procs == 1..NumProcs

----------------------------------------------------------------------------
(* Strings *)

Whitespace == {" ", "\t"}

Digit == [n \in 0..9 |-> CASE n = 0 -> "0" [] n = 1 -> "1" [] n = 2 -> "2" [] n = 3 -> "3"
                           [] n = 4 -> "4" [] n = 5 -> "5" [] n = 6 -> "6" [] n = 7 -> "7"
                           [] n = 8 -> "8" [] OTHER -> "9"]

\* String.prototype.toLowerCase on one character.
LowerChar(c) ==
    CASE c = "B" -> "b" [] c = "E" -> "e" [] c = "A" -> "a" [] c = "R" -> "r"
      [] c = "S" -> "s" [] c = "I" -> "i" [] c = "C" -> "c"
      [] OTHER -> c

toLowerCase(s) == [i \in 1..Len(s) |-> LowerChar(s[i])]

\* Index of the first whitespace character of s, Len(s) + 1 if there is none.
FirstWhitespace(s) ==
    IF \E i \in 1..Len(s) : s[i] \in Whitespace
    THEN CHOOSE i \in 1..Len(s) : s[i] \in Whitespace /\ \A j \in 1..(i - 1) : s[j] \notin Whitespace
    ELSE Len(s) + 1

\* s.split(/\s+/)[0]: the characters before the first whitespace run
\* (the empty string when s starts with whitespace).
SplitFirst(s) == SubSeq(s, 1, FirstWhitespace(s) - 1)

\* s.split(/\s+/)[1], or the empty string: what follows the first whitespace run,
\* up to the next one.
RECURSIVE SkipWhitespace(_)
SkipWhitespace(s) ==
    IF s # <<>> /\ Head(s) \in Whitespace THEN SkipWhitespace(Tail(s)) ELSE s

SplitSecond(s) ==
    SplitFirst(SkipWhitespace(SubSeq(s, FirstWhitespace(s), Len(s))))

\* JavaScript truthiness of a string.
Truthy(s) == s # <<>>

BearerPrefix == <<"B", "e", "a", "r", "e", "r", " ">>
bearer == <<"b", "e", "a", "r", "e", "r">>

\* Faulty variant: the scheme is written in lower case.
BearerHeader_LowerCase(accessToken) == <<"b", "e", "a", "r", "e", "r", " ">> \o accessToken

\* `Bearer ${accessToken}`
BearerHeader(accessToken) == BearerPrefix \o accessToken

----------------------------------------------------------------------------
(* Values *)

\* request.headers.authorization: absent, or a string.
NoHeader == [has |-> FALSE, v |-> <<>>]
Header(s) == [has |-> TRUE, v |-> s]

A0 == <<"a", "0">>
R0 == <<"r", "0">>
Q0 == <<"q", "0">>

AccessTok(n) == <<"a", Digit[n]>>
RefreshTok(n) == <<"r", Digit[n]>>
RequestIdOf(n) == <<"q", Digit[n]>>

basePath == <<"/", "k">>
Paths == {<<"/", "a">>}
IdPRedirect == <<"h", "/", "i">>
NextURL0 == <<"/", "k", "/", "x">>

HeaderValues ==
    { NoHeader,
      Header(<<>>),
      Header(BearerHeader(A0)),
      Header(<<"b", "E", "A", "R", "E", "R", "\t">> \o A0),
      Header(<<"B", "a", "s", "i", "c", " ">> \o A0),
      Header(<<" ">> \o BearerHeader(A0)) }

\* ProviderState: null, or an object holding some of the four fields.
Fields == {"requestId", "nextURL", "accessToken", "refreshToken"}

FieldValue(f) ==
    CASE f = "requestId" -> Q0
      [] f = "nextURL" -> NextURL0
      [] f = "accessToken" -> A0
      [] OTHER -> R0

NoState == [present |-> FALSE, fields |-> [f \in {} |-> <<>>]]
StateOf(fs) == [present |-> TRUE, fields |-> fs]

States == {NoState} \cup { StateOf([f \in D |-> FieldValue(f)]) : D \in SUBSET Fields }

\* state.f, the empty string standing for undefined (both are falsy).
Get(state, f) == IF state.present /\ f \in DOMAIN state.fields THEN state.fields[f] ELSE <<>>

\* request.payload: null, or an object with SAMLResponse (possibly empty).
Payloads ==
    { [has |-> FALSE, SAMLResponse |-> <<>>],
      [has |-> TRUE, SAMLResponse |-> <<>>],
      [has |-> TRUE, SAMLResponse |-> <<"s">>] }

Requests ==
    [ authorization : HeaderValues, payload : Payloads, canRedirect : BOOLEAN, path : Paths ]

----------------------------------------------------------------------------
(* Errors *)

NoError == [statusCode |-> 0, reason |-> "", message |-> ""]

MissingDocReason == "token document is missing and must be present"

\* An error thrown by the backend client: statusCode and body.error.reason
\* ("" when the error has no body, no body.error or no reason).
BackendError(code, reason) == [statusCode |-> code, reason |-> reason, message |-> "es"]

BackendErrors ==
    { BackendError(400, ""), BackendError(401, ""), BackendError(403, ""),
      BackendError(403, MissingDocReason),
      BackendError(500, MissingDocReason), BackendError(500, "other"), BackendError(500, "") }

\* Boom.badRequest(message)
badRequest(message) == [statusCode |-> 400, reason |-> "", message |-> message]

getErrorStatusCode(err) == err.statusCode

\* Faulty variant: every 500 counts as an expired token.
isAccessTokenExpiredError_Any500(err) ==
    getErrorStatusCode(err) = 401 \/ getErrorStatusCode(err) = 500

\* Faulty variant: the reason alone marks an expired token, whatever the status.
isAccessTokenExpiredError_AnyMissingDoc(err) ==
    \/ getErrorStatusCode(err) = 401
    \/ err.reason = MissingDocReason

\* Lines 105-115.
isAccessTokenExpiredError(err) ==
    \/ getErrorStatusCode(err) = 401
    \/ /\ getErrorStatusCode(err) = 500
       /\ err.reason = MissingDocReason

isSAMLResponsePayload(payload) == payload.has /\ Truthy(payload.SAMLResponse)

canRedirectRequest(request) == request.canRedirect

----------------------------------------------------------------------------
(* AuthenticationResult *)

NoUser == ""

NotHandled ==
    [kind |-> "NotHandled", user |-> NoUser, error |-> NoError, state |-> NoState, redirectURL |-> <<>>]
Succeeded(user, newState) ==
    [kind |-> "Succeeded", user |-> user, error |-> NoError, state |-> newState, redirectURL |-> <<>>]
Failed(err) ==
    [kind |-> "Failed", user |-> NoUser, error |-> err, state |-> NoState, redirectURL |-> <<>>]
RedirectTo(url, newState) ==
    [kind |-> "Redirect", user |-> NoUser, error |-> NoError, state |-> newState, redirectURL |-> url]

\* Faulty variant: the refresh token is left out of the new state.
TokenPair_AccessOnly(accessToken, refreshToken) ==
    StateOf([f \in {"accessToken"} |-> accessToken])

\* The two shapes of newState the provider builds.
TokenPair(accessToken, refreshToken) ==
    StateOf([f \in {"accessToken", "refreshToken"} |->
                IF f = "accessToken" THEN accessToken ELSE refreshToken])

HandshakeState(requestId, nextURL) ==
    StateOf([f \in {"requestId", "nextURL"} |-> IF f = "requestId" THEN requestId ELSE nextURL])

----------------------------------------------------------------------------
(* The backend (options.client) *)

TheUser == "U"

NoReply == [ok |-> FALSE, user |-> NoUser, accessToken |-> <<>>, refreshToken |-> <<>>,
            id |-> <<>>, redirect |-> <<>>, err |-> NoError]

ErrorReply(e) == [NoReply EXCEPT !.err = e]

\* Errors the backend may throw on any call when it is not assumed to be healthy.
FaultReplies == IF faults THEN { ErrorReply(e) : e \in BackendErrors } ELSE {}

\* callWithRequest(request, 'shield.authenticate'): the backend reads the
\* Authorization header of the request and accepts a valid bearer token.
callWithRequestAuthenticate(request) ==
    LET h == request.authorization
        valid == /\ h.has
                 /\ toLowerCase(SplitFirst(h.v)) = bearer
                 /\ SplitSecond(h.v) \in es.access
    IN  { IF valid THEN [NoReply EXCEPT !.ok = TRUE, !.user = TheUser]
                   ELSE ErrorReply(BackendError(401, "")) } \cup FaultReplies

\* callWithInternalUser('shield.getAccessToken', {grant_type: 'refresh_token', refresh_token}):
\* a refresh token is exchanged once for a new pair; a used or unknown one is rejected with 400.
getAccessTokenReply(refreshToken) ==
    IF refreshToken \in es.refresh
    THEN [NoReply EXCEPT !.ok = TRUE,
                         !.accessToken = AccessTok(es.next + 1),
                         !.refreshToken = RefreshTok(es.next + 1)]
    ELSE ErrorReply(BackendError(400, ""))

callWithInternalUserGetAccessToken(refreshToken) ==
    {getAccessTokenReply(refreshToken)} \cup FaultReplies

\* The store after the backend answered `reply` to a call that issues a token pair.
Issue(reply, used) ==
    IF reply.ok
    THEN [es EXCEPT !.access = @ \cup {reply.accessToken},
                    !.refresh = (@ \ used) \cup {reply.refreshToken},
                    !.next = @ + 1]
    ELSE es

\* callWithInternalUser('shield.samlAuthenticate', {ids, content})
callWithInternalUserSamlAuthenticate(ids, content) ==
    { [NoReply EXCEPT !.ok = TRUE,
                      !.accessToken = AccessTok(es.next + 1),
                      !.refreshToken = RefreshTok(es.next + 1)] } \cup FaultReplies

\* callWithInternalUser('shield.samlPrepare', {acs})
callWithInternalUserSamlPrepare(acs) ==
    { [NoReply EXCEPT !.ok = TRUE, !.id = RequestIdOf(es.prepared + 1), !.redirect = IdPRedirect] }
        \cup FaultReplies

\* The store after the backend answered `reply` to samlPrepare.
Prepare(reply) == IF reply.ok THEN [es EXCEPT !.prepared = @ + 1] ELSE es

\* One entry of the history of backend calls.
Rpc(name, by, arg, ids, reply) ==
    [name |-> name, by |-> by, arg |-> arg, ids |-> ids, ok |-> reply.ok, err |-> reply.err,
     accessToken |-> reply.accessToken, refreshToken |-> reply.refreshToken,
     id |-> reply.id, redirect |-> reply.redirect]

getACS == <<"p", ":", "h", ":", "9">> \o basePath \o <<"/", "s">>

----------------------------------------------------------------------------
(* authenticate: control flow between the strategies *)

\* One entry of the history of strategies: kind is the kind of the result the
\* strategy returned, "Running" while it has not returned.
Attempt(name, res) == [name |-> name, kind |-> res.kind, err |-> res.error]
Running(name) == [name |-> name, kind |-> "Running", err |-> NoError]

\* Faulty variant: a failure does not end the chain.
AfterStateBlock_ContinueOnFailure(res) ==
    IF res.kind \in {"NotHandled", "Failed"} THEN "payload" ELSE "done"

\* Lines 170-179: with authenticationResult = res after the header/state/refresh
\* block, the payload strategy runs next if res is NotHandled; otherwise res is returned.
AfterStateBlock(res) == IF res.kind = "NotHandled" THEN "payload" ELSE "done"

\* Faulty variant: headerNotRecognized is not looked at.
AfterHeader_IgnoreNotRecognized(res, headerNotRecognized, state) ==
    IF state.present /\ res.kind = "NotHandled" THEN "state"
    ELSE IF res.kind = "NotHandled" THEN "payload" ELSE "done"

\* Faulty variant: a failed header strategy falls through to the state strategy.
AfterHeader_StateOnFailure(res, headerNotRecognized, state) ==
    IF headerNotRecognized THEN "done"
    ELSE IF state.present /\ res.kind \in {"NotHandled", "Failed"} THEN "state"
    ELSE IF res.kind = "NotHandled" THEN "payload" ELSE "done"

\* Lines 159-168, after authenticateViaHeader returned.
AfterHeader(res, headerNotRecognized, state) ==
    IF headerNotRecognized THEN "done"
    ELSE IF state.present /\ res.kind = "NotHandled" THEN "state"
    ELSE AfterStateBlock(res)

\* Faulty variant: any failure of the state strategy leads to the refresh strategy.
AfterState_AnyFailure(res) ==
    IF res.kind = "Failed" THEN "refresh"
    ELSE IF res.kind = "NotHandled" THEN "payload" ELSE "done"

\* Lines 165-167, after authenticateViaState returned.
AfterState(res) ==
    IF res.kind = "Failed" /\ isAccessTokenExpiredError(res.error) THEN "refresh"
    ELSE AfterStateBlock(res)

\* Lines 177-179, after authenticateViaPayload returned.
AfterPayload(res) == IF res.kind = "NotHandled" THEN "handshake" ELSE "done"

\* authenticate(request, state) is called: call p starts with the header strategy.
authenticate(p, request, state) ==
    /\ pc[p] = "idle"
    /\ pc' = [pc EXCEPT ![p] = "header"]
    /\ req' = [req EXCEPT ![p] = request]
    /\ st' = [st EXCEPT ![p] = state]
    /\ entryAuth' = [entryAuth EXCEPT ![p] = request.authorization]
    /\ UNCHANGED <<result, ctx, fresh, attempts, rpcs, es, faults, out, session>>

----------------------------------------------------------------------------
(* The strategies *)

authenticateViaHeader(p) ==
    /\ pc[p] = "header"
    /\ LET authorization == req[p].authorization IN
       \/ /\ ~(authorization.has /\ Truthy(authorization.v))
          /\ result' = [result EXCEPT ![p] = NotHandled]
          /\ attempts' = [attempts EXCEPT ![p] = Append(@, Attempt("header", NotHandled))]
          /\ pc' = [pc EXCEPT ![p] = AfterHeader(NotHandled, FALSE, st[p])]
          /\ UNCHANGED rpcs
       \/ /\ authorization.has /\ Truthy(authorization.v)
          /\ toLowerCase(SplitFirst(authorization.v)) # bearer
          /\ result' = [result EXCEPT ![p] = NotHandled]
          /\ attempts' = [attempts EXCEPT ![p] = Append(@, Attempt("header", NotHandled))]
          /\ pc' = [pc EXCEPT ![p] = AfterHeader(NotHandled, TRUE, st[p])]
          /\ UNCHANGED rpcs
       \/ /\ authorization.has /\ Truthy(authorization.v)
          /\ toLowerCase(SplitFirst(authorization.v)) = bearer
          /\ \E reply \in callWithRequestAuthenticate(req[p]) :
               LET res == IF reply.ok THEN Succeeded(reply.user, NoState) ELSE Failed(reply.err) IN
               /\ rpcs' = [rpcs EXCEPT ![p] =
                              Append(@, Rpc("authenticate", "header", authorization.v, <<>>, reply))]
               /\ result' = [result EXCEPT ![p] = res]
               /\ attempts' = [attempts EXCEPT ![p] = Append(@, Attempt("header", res))]
               /\ pc' = [pc EXCEPT ![p] = AfterHeader(res, FALSE, st[p])]
    /\ UNCHANGED <<req, st, ctx, fresh, entryAuth, es, faults, out, session>>

authenticateViaState(p) ==
    /\ pc[p] = "state"
    /\ LET accessToken == Get(st[p], "accessToken") IN
       \/ /\ ~Truthy(accessToken)
          /\ result' = [result EXCEPT ![p] = NotHandled]
          /\ attempts' = [attempts EXCEPT ![p] = Append(@, Attempt("state", NotHandled))]
          /\ pc' = [pc EXCEPT ![p] = AfterState(NotHandled)]
          /\ UNCHANGED <<req, rpcs>>
       \/ /\ Truthy(accessToken)
          /\ LET injected == [req[p] EXCEPT !.authorization = Header(BearerHeader(accessToken))] IN
             \E reply \in callWithRequestAuthenticate(injected) :
               LET res == IF reply.ok THEN Succeeded(reply.user, NoState) ELSE Failed(reply.err) IN
               /\ rpcs' = [rpcs EXCEPT ![p] =
                              Append(@, Rpc("authenticate", "state", injected.authorization.v, <<>>, reply))]
               \* delete request.headers.authorization in the catch block
               /\ req' = [req EXCEPT ![p] =
                              IF reply.ok THEN injected ELSE [injected EXCEPT !.authorization = NoHeader]]
               /\ result' = [result EXCEPT ![p] = res]
               /\ attempts' = [attempts EXCEPT ![p] = Append(@, Attempt("state", res))]
               /\ pc' = [pc EXCEPT ![p] = AfterState(res)]
    /\ UNCHANGED <<st, ctx, fresh, entryAuth, es, faults, out, session>>

BothExpired == "Both access and refresh tokens are expired."
NoRequestId == "SAML response state does not have corresponding request id or redirect URL."

\* Faulty variant: a rejected refresh never re-initiates the handshake.
refreshCatch_NoHandshake(request, err) ==
    [ handshake |-> FALSE,
      res |-> IF getErrorStatusCode(err) = 400
              THEN Failed(badRequest("Both access and refresh tokens are expired."))
              ELSE Failed(err) ]

\* Faulty variant: the backend's 400 is passed through instead of the badRequest error.
refreshCatch_PassThrough(request, err) ==
    [ handshake |-> getErrorStatusCode(err) = 400 /\ canRedirectRequest(request),
      res |-> Failed(err) ]

\* The catch block of authenticateViaRefreshToken (lines 464-510), after the
\* header was deleted: whether the handshake is re-initiated, and the result
\* returned when it is not.
refreshCatch(request, err) ==
    [ handshake |-> getErrorStatusCode(err) = 400 /\ canRedirectRequest(request),
      res |-> IF getErrorStatusCode(err) = 400 THEN Failed(badRequest(BothExpired)) ELSE Failed(err) ]

\* The strategy's history entry is closed with the result it returned.
Close(log, name, res) ==
    [i \in 1..Len(log) |-> IF log[i].name = name THEN Attempt(name, res) ELSE log[i]]

\* Faulty variant: the header set for the refreshed token stays on the request.
deleteAuthorization_Keep(request) == request

\* Line 475: delete request.headers.authorization.
deleteAuthorization(request) == [request EXCEPT !.authorization = NoHeader]

\* authenticateViaRefreshToken returns res, or calls authenticateViaHandshake and
\* returns what it will return.
RefreshReturns(p, request, caught, log) ==
    /\ req' = [req EXCEPT ![p] = request]
    /\ IF caught.handshake
       THEN /\ pc' = [pc EXCEPT ![p] = "handshake"]
            /\ ctx' = [ctx EXCEPT ![p] = "refresh"]
            /\ attempts' = [attempts EXCEPT ![p] = Append(log, Running("handshake"))]
            /\ UNCHANGED result
       ELSE /\ pc' = [pc EXCEPT ![p] = AfterStateBlock(caught.res)]
            /\ result' = [result EXCEPT ![p] = caught.res]
            /\ attempts' = [attempts EXCEPT ![p] = Close(log, "refresh", caught.res)]
            /\ UNCHANGED ctx

\* authenticateViaRefreshToken up to its second await: the getAccessToken call.
authenticateViaRefreshToken(p) ==
    /\ pc[p] = "refresh"
    /\ LET refreshToken == Get(st[p], "refreshToken")
           log == Append(attempts[p], Running("refresh")) IN
       \/ /\ ~Truthy(refreshToken)
          /\ result' = [result EXCEPT ![p] = NotHandled]
          /\ attempts' = [attempts EXCEPT ![p] = Close(log, "refresh", NotHandled)]
          /\ pc' = [pc EXCEPT ![p] = AfterStateBlock(NotHandled)]
          /\ UNCHANGED <<req, ctx, fresh, rpcs, es>>
       \/ /\ Truthy(refreshToken)
          /\ \E reply \in callWithInternalUserGetAccessToken(refreshToken) :
               /\ rpcs' = [rpcs EXCEPT ![p] =
                              Append(@, Rpc("getAccessToken", "refresh", refreshToken, <<>>, reply))]
               /\ es' = Issue(reply, {refreshToken})
               /\ IF reply.ok
                  THEN /\ fresh' = [fresh EXCEPT ![p] =
                                      [accessToken |-> reply.accessToken,
                                       refreshToken |-> reply.refreshToken]]
                       /\ req' = [req EXCEPT ![p].authorization =
                                      Header(BearerHeader(reply.accessToken))]
                       /\ attempts' = [attempts EXCEPT ![p] = log]
                       /\ pc' = [pc EXCEPT ![p] = "refreshAuth"]
                       /\ UNCHANGED <<result, ctx>>
                  ELSE /\ RefreshReturns(p, deleteAuthorization(req[p]),
                                         refreshCatch(req[p], reply.err), log)
                       /\ UNCHANGED fresh
    /\ UNCHANGED <<st, entryAuth, faults, out, session>>

\* authenticateViaRefreshToken from its second await: authenticate with the new token.
authenticateViaRefreshedToken(p) ==
    /\ pc[p] = "refreshAuth"
    /\ \E reply \in callWithRequestAuthenticate(req[p]) :
         /\ rpcs' = [rpcs EXCEPT ![p] =
                        Append(@, Rpc("authenticate", "refresh", req[p].authorization.v, <<>>, reply))]
         /\ IF reply.ok
            THEN LET res == Succeeded(reply.user,
                                      TokenPair(fresh[p].accessToken, fresh[p].refreshToken)) IN
                 /\ result' = [result EXCEPT ![p] = res]
                 /\ attempts' = [attempts EXCEPT ![p] = Close(@, "refresh", res)]
                 /\ pc' = [pc EXCEPT ![p] = AfterStateBlock(res)]
                 /\ UNCHANGED <<req, ctx>>
            ELSE RefreshReturns(p, deleteAuthorization(req[p]),
                                refreshCatch(req[p], reply.err), attempts[p])
    /\ UNCHANGED <<st, fresh, entryAuth, es, faults, out, session>>

\* Faulty variant: a state with neither requestId nor nextURL passes for an IdP initiated login.
incompleteState_OnlyPartial(state) ==
    state.present /\ (Truthy(Get(state, "requestId")) # Truthy(Get(state, "nextURL")))

\* Faulty variant: only the request id is looked at.
incompleteState_RequestIdOnly(state) ==
    state.present /\ ~Truthy(Get(state, "requestId"))

\* Line 332: there is a state and it lacks the request id or the redirect URL.
incompleteState(state) ==
    state.present /\ (~Truthy(Get(state, "requestId")) \/ ~Truthy(Get(state, "nextURL")))

\* Faulty variant: the request id is never sent.
samlAuthenticateIds_Empty(stateRequestId) == <<>>

\* Line 360: ids of the samlAuthenticate body.
samlAuthenticateIds(stateRequestId) ==
    IF Truthy(stateRequestId) THEN <<stateRequestId>> ELSE <<>>

\* Faulty variant: the user always lands on the base path.
payloadRedirect_BasePath(state, reply) ==
    RedirectTo(basePath \o <<"/">>, TokenPair(reply.accessToken, reply.refreshToken))

\* Faulty variant: the new tokens are merged into the prior state.
payloadRedirect_Merge(state, reply) ==
    RedirectTo(IF Truthy(Get(state, "nextURL")) THEN Get(state, "nextURL") ELSE basePath \o <<"/">>,
               StateOf([f \in (DOMAIN state.fields) \cup {"accessToken", "refreshToken"} |->
                           IF f = "accessToken" THEN reply.accessToken
                           ELSE IF f = "refreshToken" THEN reply.refreshToken
                           ELSE state.fields[f]]))

\* Lines 370-373: the redirect returned when samlAuthenticate succeeded.
payloadRedirect(state, reply) ==
    RedirectTo(IF Truthy(Get(state, "nextURL")) THEN Get(state, "nextURL") ELSE basePath \o <<"/">>,
               TokenPair(reply.accessToken, reply.refreshToken))

authenticateViaPayload(p) ==
    /\ pc[p] = "payload"
    /\ LET stateRequestId == Get(st[p], "requestId") IN
       \/ /\ ~isSAMLResponsePayload(req[p].payload)
          /\ result' = [result EXCEPT ![p] = NotHandled]
          /\ attempts' = [attempts EXCEPT ![p] = Append(@, Attempt("payload", NotHandled))]
          /\ pc' = [pc EXCEPT ![p] = AfterPayload(NotHandled)]
          /\ UNCHANGED <<rpcs, es>>
       \/ /\ isSAMLResponsePayload(req[p].payload)
          /\ incompleteState(st[p])
          /\ LET res == Failed(badRequest(NoRequestId)) IN
             /\ result' = [result EXCEPT ![p] = res]
             /\ attempts' = [attempts EXCEPT ![p] = Append(@, Attempt("payload", res))]
             /\ pc' = [pc EXCEPT ![p] = AfterPayload(res)]
          /\ UNCHANGED <<rpcs, es>>
       \/ /\ isSAMLResponsePayload(req[p].payload)
          /\ ~incompleteState(st[p])
          /\ LET ids == samlAuthenticateIds(stateRequestId) IN
             \E reply \in callWithInternalUserSamlAuthenticate(ids, req[p].payload.SAMLResponse) :
               LET res == IF reply.ok THEN payloadRedirect(st[p], reply) ELSE Failed(reply.err) IN
               /\ rpcs' = [rpcs EXCEPT ![p] =
                              Append(@, Rpc("samlAuthenticate", "payload",
                                            req[p].payload.SAMLResponse, ids, reply))]
               /\ es' = Issue(reply, {})
               /\ result' = [result EXCEPT ![p] = res]
               /\ attempts' = [attempts EXCEPT ![p] = Append(@, Attempt("payload", res))]
               /\ pc' = [pc EXCEPT ![p] = AfterPayload(res)]
    /\ UNCHANGED <<req, st, ctx, fresh, entryAuth, faults, out, session>>

\* What authenticate does with the result of authenticateViaHandshake: it is
\* returned (line 178), or it is what authenticateViaRefreshToken returned (line 501).
AfterHandshake(caller, res) == IF caller = "refresh" THEN AfterStateBlock(res) ELSE "done"

\* Faulty variant: the base path is left out of nextURL.
handshakeRedirect_NoBasePath(request, reply) ==
    RedirectTo(reply.redirect, HandshakeState(reply.id, request.path))

\* Faulty variant: the user is sent back to the base path, not to the page requested.
handshakeRedirect_Home(request, reply) ==
    RedirectTo(reply.redirect, HandshakeState(reply.id, basePath \o <<"/">>))

\* Lines 542-546: the redirect returned when samlPrepare succeeded.
handshakeRedirect(request, reply) ==
    RedirectTo(reply.redirect, HandshakeState(reply.id, basePath \o request.path))

authenticateViaHandshake(p) ==
    /\ pc[p] = "handshake"
    /\ LET log == IF ctx[p] = "refresh" THEN attempts[p]
                  ELSE Append(attempts[p], Running("handshake"))
           Return(res) ==
               /\ result' = [result EXCEPT ![p] = res]
               /\ attempts' = [attempts EXCEPT ![p] =
                                  IF ctx[p] = "refresh"
                                  THEN Close(Close(log, "handshake", res), "refresh", res)
                                  ELSE Close(log, "handshake", res)]
               /\ pc' = [pc EXCEPT ![p] = AfterHandshake(ctx[p], res)]
               /\ ctx' = [ctx EXCEPT ![p] = "authenticate"] IN
       \/ /\ ~canRedirectRequest(req[p])
          /\ Return(NotHandled)
          /\ UNCHANGED <<rpcs, es>>
       \/ /\ canRedirectRequest(req[p])
          /\ \E reply \in callWithInternalUserSamlPrepare(getACS) :
               /\ rpcs' = [rpcs EXCEPT ![p] =
                              Append(@, Rpc("samlPrepare", "handshake", getACS, <<>>, reply))]
               /\ es' = Prepare(reply)
               /\ Return(IF reply.ok THEN handshakeRedirect(req[p], reply) ELSE Failed(reply.err))
    /\ UNCHANGED <<req, st, fresh, entryAuth, faults, out, session>>

----------------------------------------------------------------------------
(* deauthenticate *)

\* request.query: null, or an object with SAMLRequest (possibly empty).
Queries ==
    { [has |-> FALSE, SAMLRequest |-> <<>>],
      [has |-> TRUE, SAMLRequest |-> <<>>],
      [has |-> TRUE, SAMLRequest |-> <<"x">>] }

\* request.url.search: empty, or the query string with its leading '?'.
Searches == { <<>>, <<"?", "S", "=", "x">> }

LogoutRequests == [ query : Queries, search : Searches ]

isSAMLRequestQuery(query) == query.has /\ Truthy(query.SAMLRequest)

\* DeauthenticationResult
DeauthNotHandled == [kind |-> "NotHandled", redirectURL |-> <<>>, error |-> NoError]
DeauthRedirectTo(url) == [kind |-> "Redirect", redirectURL |-> url, error |-> NoError]
DeauthFailed(err) == [kind |-> "Failed", redirectURL |-> <<>>, error |-> err]

LoggedOut == <<"/", "l", "o", "g", "g", "e", "d", "_", "o", "u", "t">>
SloRedirect == <<"h", "/", "o">>

\* The `redirect` field of a logout response: null, or a string.
NoRedirect == [has |-> FALSE, v |-> <<>>]

\* callWithInternalUser('shield.samlLogout' | 'shield.samlInvalidate', {body}): the
\* response may carry a redirect for Single Logout at the identity provider.
callWithInternalUserLogout(args) ==
    { [ok |-> TRUE, redirect |-> r, err |-> NoError] :
          r \in {NoRedirect, [has |-> TRUE, v |-> SloRedirect], [has |-> TRUE, v |-> <<>>]} }
    \cup { [ok |-> FALSE, redirect |-> NoRedirect, err |-> e] :
               e \in IF faults THEN BackendErrors ELSE {} }

\* The store after the backend answered `reply` to a logout call: the tokens
\* sent with samlLogout are invalidated.
Invalidate(args, reply) ==
    IF reply.ok /\ args.name = "samlLogout"
    THEN [es EXCEPT !.access = @ \ {args.token}, !.refresh = @ \ {args.refresh_token}]
    ELSE es

\* Faulty variant: a SAMLRequest without a session is not handled.
nothingToInvalidate_StateOnly(request, state) ==
    ~state.present \/ ~Truthy(Get(state, "accessToken"))

\* Line 193: there is neither an access token nor a SAMLRequest.
nothingToInvalidate(request, state) ==
    /\ ~state.present \/ ~Truthy(Get(state, "accessToken"))
    /\ ~isSAMLRequestQuery(request.query)

NoArgs == [name |-> "", queryString |-> <<>>, acs |-> <<>>, token |-> <<>>, refresh_token |-> <<>>]

\* Faulty variant: the session's token is invalidated whenever there is one.
logoutArgs_SessionFirst(request, state) ==
    IF isSAMLRequestQuery(request.query) /\ ~Truthy(Get(state, "accessToken"))
    THEN [NoArgs EXCEPT !.name = "samlInvalidate",
                        !.queryString = IF Truthy(request.search) THEN Tail(request.search) ELSE <<>>,
                        !.acs = getACS]
    ELSE [NoArgs EXCEPT !.name = "samlLogout",
                        !.token = Get(state, "accessToken"),
                        !.refresh_token = Get(state, "refreshToken")]

\* Lines 201-226: the backend endpoint and the body of the logout call.
logoutArgs(request, state) ==
    IF isSAMLRequestQuery(request.query)
    THEN [NoArgs EXCEPT !.name = "samlInvalidate",
                        !.queryString = IF Truthy(request.search) THEN Tail(request.search) ELSE <<>>,
                        !.acs = getACS]
    ELSE [NoArgs EXCEPT !.name = "samlLogout",
                        !.token = Get(state, "accessToken"),
                        !.refresh_token = Get(state, "refreshToken")]

\* Faulty variant: a response without redirect is passed on as it is.
logoutResult_NoDefault(reply) ==
    IF reply.ok THEN DeauthRedirectTo(reply.redirect.v) ELSE DeauthFailed(reply.err)

\* Lines 228-256: the result built from the answer of the logout call.
logoutResult(reply) ==
    IF reply.ok
    THEN IF reply.redirect.has THEN DeauthRedirectTo(reply.redirect.v)
         ELSE DeauthRedirectTo(LoggedOut)
    ELSE DeauthFailed(reply.err)

NoLogout == [called |-> FALSE, request |-> [query |-> [has |-> FALSE, SAMLRequest |-> <<>>], search |-> <<>>],
             state |-> NoState, rpcs |-> <<>>, result |-> DeauthNotHandled]

\* deauthenticate(request, state): at most one backend call, awaited in the call.
deauthenticate(p, request, state) ==
    /\ pc[p] = "idle"
    /\ pc' = [pc EXCEPT ![p] = "deauthenticated"]
    /\ \/ /\ nothingToInvalidate(request, state)
          /\ out' = [out EXCEPT ![p] = [called |-> TRUE, request |-> request, state |-> state,
                                        rpcs |-> <<>>, result |-> DeauthNotHandled]]
          /\ UNCHANGED es
       \/ /\ ~nothingToInvalidate(request, state)
          /\ LET args == logoutArgs(request, state) IN
             \E reply \in callWithInternalUserLogout(args) :
               /\ out' = [out EXCEPT ![p] =
                             [called |-> TRUE, request |-> request, state |-> state,
                              rpcs |-> <<[args |-> args, ok |-> reply.ok, err |-> reply.err,
                                          redirect |-> reply.redirect]>>,
                              result |-> logoutResult(reply)]]
               /\ es' = Invalidate(args, reply)
    /\ UNCHANGED <<req, st, result, ctx, fresh, attempts, rpcs, entryAuth, faults, session>>

----------------------------------------------------------------------------
(* Specifications *)

\* The session the caller keeps: the state it persisted last (cookie), the
\* request ids it has seen sent to samlAuthenticate by calls that returned
\* (sent), what the last returned call did (last), the path of the request
\* whose handshake produced the cookie (origin) and the number of calls returned.
NoSession ==
    [cookie |-> NoState, sent |-> <<>>, last |-> "none", origin |-> <<>>, served |-> 0]

NoFresh == [accessToken |-> <<>>, refreshToken |-> <<>>]

Idle ==
    /\ pc = [p \in Procs |-> "idle"]
    /\ req = [p \in Procs |-> [authorization |-> NoHeader, payload |-> [has |-> FALSE, SAMLResponse |-> <<>>],
                               canRedirect |-> FALSE, path |-> <<"/", "a">>]]
    /\ st = [p \in Procs |-> NoState]
    /\ result = [p \in Procs |-> NotHandled]
    /\ ctx = [p \in Procs |-> "authenticate"]
    /\ fresh = [p \in Procs |-> NoFresh]
    /\ attempts = [p \in Procs |-> <<>>]
    /\ rpcs = [p \in Procs |-> <<>>]
    /\ entryAuth = [p \in Procs |-> NoHeader]
    /\ out = [p \in Procs |-> NoLogout]
    /\ session = NoSession

\* Any backend: the tokens of the state may be valid or not, and every call may fail.
Init ==
    /\ Idle
    /\ faults = TRUE
    /\ \E a \in SUBSET {A0}, r \in SUBSET {R0} :
         es = [access |-> a, refresh |-> r, next |-> 0, prepared |-> 0]

Step(p) ==
    \/ authenticateViaHeader(p)
    \/ authenticateViaState(p)
    \/ authenticateViaRefreshToken(p)
    \/ authenticateViaRefreshedToken(p)
    \/ authenticateViaPayload(p)
    \/ authenticateViaHandshake(p)

\* One authenticate call with any request and any state.
Begin == \E request \in Requests, state \in States : authenticate(1, request, state)

\* One deauthenticate call with any request and any state.
Logout == \E request \in LogoutRequests, state \in States : deauthenticate(1, request, state)

Next == Begin \/ Logout \/ \E p \in Procs : Step(p)

Spec == Init /\ [][Next]_vars

\* The refresh race: a healthy backend whose refresh tokens are single-use, and
\* concurrent calls without Authorization header that all carry the same state
\* {expired accessToken, refreshToken}.
RaceState == TokenPair(A0, R0)

InitRace ==
    /\ Idle
    /\ faults = FALSE
    /\ es = [access |-> {}, refresh |-> {R0}, next |-> 0, prepared |-> 0]

BeginRace(p) ==
    \E request \in Requests :
        /\ request.authorization = NoHeader
        /\ authenticate(p, request, RaceState)

StepRace(p) ==
    \/ authenticateViaHeader(p)
    \/ authenticateViaState(p)
    \/ authenticateViaRefreshToken(p)
    \/ authenticateViaRefreshedToken(p)
    \/ authenticateViaHandshake(p)

NextRace == \E p \in Procs : BeginRace(p) \/ StepRace(p)

SpecRace == InitRace /\ [][NextRace]_vars

\* A session: one caller that issues its requests one after the other, persists
\* every newState returned by authenticate and passes it to the next call.
MaxRequests == 4

SessionPaths == { <<"/", "a">>, <<"/", "b">> }

\* The requests of the session: browser requests without Authorization header,
\* and API requests that carry the first token pair's access token.
SessionRequests ==
    [ authorization : {NoHeader, Header(BearerHeader(AccessTok(1)))},
      payload : { [has |-> FALSE, SAMLResponse |-> <<>>], [has |-> TRUE, SAMLResponse |-> <<"s">>] },
      canRedirect : BOOLEAN,
      path : SessionPaths ]

InitSession ==
    /\ Idle
    /\ faults = TRUE
    /\ es = [access |-> {}, refresh |-> {}, next |-> 0, prepared |-> 0]

BeginSession ==
    /\ session.served < MaxRequests
    /\ \E request \in SessionRequests : authenticate(1, request, session.cookie)

\* The request ids a call sent to samlAuthenticate, with the outcome.
SentIds(log) ==
    LET calls == SelectSeq(log, LAMBDA r : r.name = "samlAuthenticate" /\ r.ids # <<>>)
    IN  [i \in 1..Len(calls) |-> [id |-> calls[i].ids[1], ok |-> calls[i].ok]]

\* What a returned call did: completed a handshake, completed the exchange of
\* a SAMLResponse for a request id, or anything else.
LastOf(log) ==
    IF log = <<>> \/ ~log[Len(log)].ok THEN "other"
    ELSE IF log[Len(log)].name = "samlPrepare" THEN "handshake"
    ELSE IF log[Len(log)].name = "samlAuthenticate" /\ log[Len(log)].ids # <<>> THEN "acs"
    ELSE "other"

\* The call returns to the caller, which persists the newState of the result,
\* if there is one, and keeps the state it has otherwise.
Persist(p) ==
    /\ pc[p] = "done"
    /\ session' = [cookie |-> IF result[p].state.present THEN result[p].state ELSE session.cookie,
                   sent |-> session.sent \o SentIds(rpcs[p]),
                   last |-> LastOf(rpcs[p]),
                   origin |-> IF LastOf(rpcs[p]) = "handshake" THEN req[p].path ELSE <<>>,
                   served |-> session.served + 1]
    /\ pc' = [pc EXCEPT ![p] = "idle"]
    /\ req' = [req EXCEPT ![p] = [authorization |-> NoHeader, payload |-> [has |-> FALSE, SAMLResponse |-> <<>>],
                                  canRedirect |-> FALSE, path |-> <<"/", "a">>]]
    /\ st' = [st EXCEPT ![p] = NoState]
    /\ result' = [result EXCEPT ![p] = NotHandled]
    /\ ctx' = [ctx EXCEPT ![p] = "authenticate"]
    /\ fresh' = [fresh EXCEPT ![p] = NoFresh]
    /\ attempts' = [attempts EXCEPT ![p] = <<>>]
    /\ rpcs' = [rpcs EXCEPT ![p] = <<>>]
    /\ entryAuth' = [entryAuth EXCEPT ![p] = NoHeader]
    /\ UNCHANGED <<es, faults, out>>

NextSession == BeginSession \/ Step(1) \/ Persist(1)

SpecSession == InitSession /\ [][NextSession]_vars

\* Every backend call returns, with a value or with an error: a strategy that
\* awaits the backend goes on.
SpecLive == Spec /\ \A p \in Procs : WF_vars(Step(p))

----------------------------------------------------------------------------
(* Properties *)

Done(p) == pc[p] = "done"

Rank(name) ==
    CASE name = "header" -> 1 [] name = "state" -> 2 [] name = "refresh" -> 3
      [] name = "payload" -> 4 [] OTHER -> 5

\* The errors the specification classifies as TokenExpired.
TokenExpired(err) ==
    \/ err.statusCode = 401
    \/ err.statusCode = 500 /\ err.reason = "token document is missing and must be present"

InOrder(log) == \A i, j \in 1..Len(log) : i < j => Rank(log[i].name) < Rank(log[j].name)

\* C1 as stated: the strategies are attempted in the order header, state,
\* refresh, payload, handshake, and a strategy is attempted only if every
\* earlier strategy returned NotHandled, except that refresh is attempted after
\* the state strategy failed with TokenExpired.
C1_StrictChain ==
    \A p \in Procs :
        LET log == attempts[p] IN
        /\ InOrder(log)
        /\ \A i \in 2..Len(log) :
             \/ \A j \in 1..(i - 1) : log[j].kind = "NotHandled"
             \/ /\ log[i].name = "refresh"
                /\ log[i - 1].name = "state"
                /\ log[i - 1].kind = "Failed" /\ TokenExpired(log[i - 1].err)
                /\ \A j \in 1..(i - 2) : log[j].kind = "NotHandled"

\* C1 amended: the strategies are attempted in the order header, state,
\* refresh, payload, handshake, and a strategy is attempted only if the strategy
\* attempted just before it returned NotHandled, with two exceptions: refresh is
\* attempted after (and only after) the state strategy failed with TokenExpired,
\* and the handshake is attempted from inside the refresh strategy, payload
\* being skipped, when a backend call of the refresh strategy failed with
\* status 400 and the request is redirect-capable.
C1_Chain ==
    \A p \in Procs :
        LET log == attempts[p] IN
        /\ InOrder(log)
        /\ \A i \in 2..Len(log) :
             IF log[i].name = "refresh"
             THEN /\ log[i - 1].name = "state"
                  /\ log[i - 1].kind = "Failed" /\ TokenExpired(log[i - 1].err)
             ELSE IF log[i].name = "handshake" /\ log[i - 1].name = "refresh"
             THEN /\ req[p].canRedirect
                  /\ \E k \in 1..Len(rpcs[p]) :
                       /\ rpcs[p][k].by = "refresh"
                       /\ ~rpcs[p][k].ok /\ rpcs[p][k].err.statusCode = 400
                       /\ \A m \in (k + 1)..Len(rpcs[p]) : rpcs[p][m].by = "handshake"
             ELSE log[i - 1].kind = "NotHandled"

\* A call that went header, state, refresh and from there into the handshake.
C1_Witness ==
    \E p \in Procs :
        /\ Done(p)
        /\ [i \in 1..Len(attempts[p]) |-> attempts[p][i].name]
              = <<"header", "state", "refresh", "handshake">>

\* C2: when authenticate returns NotHandled or Failed,
\* request.headers.authorization equals its value on entry (absent if it was
\* absent, otherwise the value the caller supplied, the empty value included).
C2_HeaderNeutrality ==
    \A p \in Procs :
        Done(p) /\ result[p].kind \in {"NotHandled", "Failed"}
            => req[p].authorization = entryAuth[p]

\* The losing calls of the refresh race.
RaceLoser(p) ==
    IF req[p].canRedirect
    THEN /\ result[p].kind = "Redirect"
         /\ result[p].redirectURL = IdPRedirect
         /\ result[p].state.present
         /\ DOMAIN result[p].state.fields = {"requestId", "nextURL"}
    ELSE /\ result[p].kind = "Failed"
         /\ result[p].error.statusCode = 400

\* C3: concurrent authenticate calls from the same state {expired accessToken,
\* refreshToken}, against a backend whose refresh token is single-use, end in
\* every interleaving with exactly one Succeeded result carrying the rotated
\* token pair; every other call is redirected to the handshake if it is
\* redirect-capable and fails with status 400 if it is not.
C3_SingleUseRefresh ==
    (\A p \in Procs : Done(p)) =>
        \E w \in Procs :
            /\ result[w].kind = "Succeeded"
            /\ result[w].user = "U"
            /\ result[w].state.present
            /\ result[w].state.fields =
                  [f \in {"accessToken", "refreshToken"} |->
                      IF f = "accessToken" THEN <<"a", "1">> ELSE <<"r", "1">>]
            /\ \A q \in Procs \ {w} : RaceLoser(q)

\* All calls returned, one of the losers redirected and one failed or won.
C3_Witness ==
    /\ \A p \in Procs : Done(p)
    /\ \E p \in Procs : result[p].kind = "Redirect"
    /\ \E p \in Procs : result[p].kind = "Succeeded"

Names(p) == { attempts[p][i].name : i \in 1..Len(attempts[p]) }

Calls(p, name) == { i \in 1..Len(rpcs[p]) : rpcs[p][i].name = name }

\* The strategy attempted right after strategy `name`, "none" if it was the last.
Successor(p, name) ==
    LET log == attempts[p]
        i == CHOOSE k \in 1..Len(log) : log[k].name = name
    IN  IF i = Len(log) THEN "none" ELSE log[i + 1].name

\* C4: within one authenticate call getAccessToken, samlPrepare and
\* samlAuthenticate are each invoked at most once and no failed backend call is
\* repeated (a second as-user authenticate carries the token getAccessToken has
\* just returned); after a backend error the only continuations are the refresh
\* strategy, after the state strategy's call failed with TokenExpired, and the
\* handshake, after a call of the refresh strategy failed with status 400.
C4_NoRetry ==
    \A p \in Procs :
        LET log == rpcs[p] IN
        /\ \A name \in {"getAccessToken", "samlPrepare", "samlAuthenticate"} :
             Cardinality(Calls(p, name)) <= 1
        /\ Cardinality(Calls(p, "authenticate")) <= 2
        /\ \A i, j \in 1..Len(log) :
             i < j /\ ~log[i].ok => ~(log[j].name = log[i].name /\ log[j].arg = log[i].arg)
        /\ \A i, j \in Calls(p, "authenticate") :
             i < j => /\ log[j].by = "refresh"
                      /\ log[j - 1].name = "getAccessToken" /\ log[j - 1].ok
                      /\ log[j].arg = <<"B", "e", "a", "r", "e", "r", " ">> \o log[j - 1].accessToken
        /\ \A i \in 1..Len(log) :
             ~log[i].ok /\ (i < Len(log) \/ Done(p)) =>
                 LET next == Successor(p, log[i].by) IN
                 \/ next = "none"
                 \/ log[i].by = "state" /\ TokenExpired(log[i].err) /\ next = "refresh"
                 \/ log[i].by = "refresh" /\ log[i].err.statusCode = 400 /\ next = "handshake"

\* A call whose getAccessToken was rejected with 400 and whose samlPrepare failed too.
C4_Witness ==
    \E p \in Procs :
        /\ Done(p)
        /\ Len(rpcs[p]) = 3
        /\ \A i \in 1..3 : ~rpcs[p][i].ok
        /\ rpcs[p][3].name = "samlPrepare"

\* An Authorization header is present, not empty, and its scheme is not bearer.
Unrecognised(h) == h.has /\ h.v # <<>> /\ toLowerCase(SplitFirst(h.v)) # <<"b", "e", "a", "r", "e", "r">>

Established(p) ==
    /\ Done(p)
    /\ ~entryAuth[p].has
    /\ st[p].present /\ DOMAIN st[p].fields = {"accessToken", "refreshToken"}
    /\ rpcs[p] # <<>> /\ rpcs[p][1].by = "state" /\ rpcs[p][1].ok

\* C6 as stated: for an established session with a valid token authenticate
\* returns Succeeded(user) without newState and request.headers.authorization
\* is absent after the call.
C6_HeaderAbsent ==
    \A p \in Procs :
        Established(p) =>
            /\ result[p] = Succeeded("U", NoState)
            /\ ~req[p].authorization.has

\* C6 amended: for an established session with a valid token authenticate
\* returns Succeeded(user) without newState and request.headers.authorization
\* is 'Bearer ' followed by the state's access token after the call.
C6_HeaderKept ==
    \A p \in Procs :
        Established(p) =>
            /\ result[p] = Succeeded("U", NoState)
            /\ Len(rpcs[p]) = 1
            /\ req[p].authorization.has
            /\ req[p].authorization.v =
                  <<"B", "e", "a", "r", "e", "r", " ">> \o st[p].fields["accessToken"]

C6_Witness == \E p \in Procs : Established(p) /\ result[p].kind = "Succeeded"

\* C7: a Succeeded or Redirect result carries no newState, or a newState whose
\* fields are exactly {accessToken, refreshToken}, or one whose fields are
\* exactly {requestId, nextURL}.
C7_StateMinimality ==
    \A p \in Procs :
        result[p].kind \in {"Succeeded", "Redirect"} /\ result[p].state.present =>
            \/ DOMAIN result[p].state.fields = {"accessToken", "refreshToken"}
            \/ DOMAIN result[p].state.fields = {"requestId", "nextURL"}

\* A refresh that succeeded while the prior state held all four fields.
C7_Witness ==
    \E p \in Procs :
        /\ Done(p)
        /\ result[p].kind = "Succeeded"
        /\ DOMAIN st[p].fields = Fields
        /\ result[p].state.present
        /\ DOMAIN result[p].state.fields = {"accessToken", "refreshToken"}

\* The state strategy's backend call has failed.
StateFailed(p) == rpcs[p] # <<>> /\ rpcs[p][1].by = "state" /\ ~rpcs[p][1].ok

\* C8: when the state strategy's authenticate call fails, the refresh strategy
\* is attempted if and only if the error is TokenExpired; for any other error
\* authenticate returns Failed with that error and makes no further backend
\* call.
C8_OnlyTokenExpiredFallsThrough ==
    \A p \in Procs :
        StateFailed(p) =>
            LET err == rpcs[p][1].err IN
            IF TokenExpired(err)
            THEN pc[p] = "refresh" \/ "refresh" \in Names(p)
            ELSE /\ Done(p)
                 /\ "refresh" \notin Names(p)
                 /\ result[p] = Failed(err)
                 /\ Len(rpcs[p]) = 1

\* The state strategy failed with a server error on a redirect-capable request with a SAMLResponse.
C8_Witness ==
    \E p \in Procs :
        /\ Done(p)
        /\ StateFailed(p)
        /\ rpcs[p][1].err.statusCode = 500 /\ rpcs[p][1].err.reason = "other"
        /\ req[p].payload.SAMLResponse # <<>>
        /\ req[p].canRedirect

\* The getAccessToken call of the refresh strategy has failed.
RefreshFailed(p) ==
    /\ Len(rpcs[p]) >= 2
    /\ rpcs[p][2].name = "getAccessToken" /\ ~rpcs[p][2].ok

\* C9: when getAccessToken fails with status 400, authenticate returns the
\* result of the handshake strategy if the request is redirect-capable and
\* Failed(badRequest('Both access and refresh tokens are expired.')) if it is
\* not; for any other status it returns Failed with the backend error.
C9_RefreshRejected ==
    \A p \in Procs :
        Done(p) /\ RefreshFailed(p) =>
            LET err == rpcs[p][2].err
                last == rpcs[p][Len(rpcs[p])] IN
            IF err.statusCode = 400 /\ req[p].canRedirect
            THEN /\ Len(rpcs[p]) = 3 /\ last.name = "samlPrepare"
                 /\ attempts[p][Len(attempts[p])].name = "handshake"
                 /\ IF last.ok
                    THEN /\ result[p].kind = "Redirect"
                         /\ result[p].redirectURL = IdPRedirect
                         /\ result[p].state.present
                         /\ DOMAIN result[p].state.fields = {"requestId", "nextURL"}
                         /\ result[p].state.fields["nextURL"] = basePath \o req[p].path
                    ELSE result[p] = Failed(last.err)
            ELSE IF err.statusCode = 400
            THEN /\ Len(rpcs[p]) = 2
                 /\ result[p] = Failed([statusCode |-> 400, reason |-> "",
                                        message |-> "Both access and refresh tokens are expired."])
            ELSE /\ Len(rpcs[p]) = 2
                 /\ result[p] = Failed(err)

\* A rejected refresh that ended in the handshake redirect.
C9_Witness ==
    \E p \in Procs :
        /\ Done(p) /\ RefreshFailed(p)
        /\ rpcs[p][2].err.statusCode = 400
        /\ result[p].kind = "Redirect"

\* C10: for a request that is not redirect-capable the pending error is
\* delivered: if the last backend call of the authenticate call failed, the
\* result is Failed with an error, never NotHandled; and the result is never a
\* handshake redirect.
C10_PendingErrorDelivered ==
    \A p \in Procs :
        Done(p) /\ ~req[p].canRedirect =>
            /\ "samlPrepare" \notin { rpcs[p][i].name : i \in 1..Len(rpcs[p]) }
            /\ rpcs[p] # <<>> /\ ~rpcs[p][Len(rpcs[p])].ok
                  => result[p].kind = "Failed" /\ result[p].error # NoError

\* The call has returned and its payload strategy ran on a SAMLResponse body.
PayloadReached(p) ==
    /\ Done(p)
    /\ "payload" \in Names(p)
    /\ req[p].payload.has /\ req[p].payload.SAMLResponse # <<>>

HasField(state, f) == state.present /\ f \in DOMAIN state.fields

LastRpc(p) == rpcs[p][Len(rpcs[p])]

BadState ==
    [statusCode |-> 400, reason |-> "",
     message |-> "SAML response state does not have corresponding request id or redirect URL."]

\* The token pair a backend call returned, as a newState.
PairOf(rpc) ==
    [present |-> TRUE,
     fields |-> [f \in {"accessToken", "refreshToken"} |->
                    IF f = "accessToken" THEN rpc.accessToken ELSE rpc.refreshToken]]

\* The result of the IdP initiated exchange: samlAuthenticate with ids = [] and,
\* on success, Redirect(basePath + '/', {accessToken, refreshToken}).
IdPInitiated(p) ==
    /\ rpcs[p] # <<>>
    /\ LastRpc(p).name = "samlAuthenticate" /\ LastRpc(p).ids = <<>>
    /\ LastRpc(p).ok =>
          /\ result[p].kind = "Redirect"
          /\ result[p].redirectURL = <<"/", "k", "/">>
          /\ result[p].state = PairOf(LastRpc(p))

\* C11 as stated: a SAMLResponse with a prior state that is present but has
\* neither requestId nor nextURL is exchanged like one with no state:
\* samlAuthenticate with ids = [] and Redirect(basePath + '/', token pair).
C11_EmptyStateIsIdPInitiated ==
    \A p \in Procs :
        PayloadReached(p) /\ st[p].present
                          /\ ~HasField(st[p], "requestId") /\ ~HasField(st[p], "nextURL")
            => IdPInitiated(p)

\* C11 amended: a SAMLResponse with a prior state that is present but has
\* neither requestId nor nextURL is rejected with badRequest('SAML response
\* state does not have corresponding request id or redirect URL.') and
\* samlAuthenticate is not called; only with an absent state is
\* samlAuthenticate called with ids = [] and the result, on success,
\* Redirect(basePath + '/', {accessToken, refreshToken}).
C11_EmptyStateRejected ==
    \A p \in Procs :
        PayloadReached(p) /\ ~HasField(st[p], "requestId") /\ ~HasField(st[p], "nextURL") =>
            IF st[p].present
            THEN /\ result[p] = Failed(BadState)
                 /\ Calls(p, "samlAuthenticate") = {}
            ELSE IdPInitiated(p)

\* A SAMLResponse arrived with the empty state object.
C11_Witness ==
    \E p \in Procs :
        /\ PayloadReached(p)
        /\ st[p].present /\ DOMAIN st[p].fields = {}
        /\ result[p].kind = "Failed"

\* C12: a SAMLResponse with a prior state that is present but lacks requestId
\* or lacks nextURL is rejected with badRequest('SAML response state does not
\* have corresponding request id or redirect URL.') and samlAuthenticate is
\* never called.
C12_CorruptState ==
    \A p \in Procs :
        /\ PayloadReached(p) /\ st[p].present
                             /\ (~HasField(st[p], "requestId") \/ ~HasField(st[p], "nextURL"))
              => result[p] = Failed(BadState)
        /\ st[p].present /\ (~HasField(st[p], "requestId") \/ ~HasField(st[p], "nextURL"))
              => Calls(p, "samlAuthenticate") = {}

\* A SAMLResponse arrived with a state that has a requestId and no nextURL.
C12_Witness ==
    \E p \in Procs :
        /\ PayloadReached(p)
        /\ HasField(st[p], "requestId") /\ ~HasField(st[p], "nextURL")

\* C13: on a SAMLResponse, with requestId and nextURL in the state
\* samlAuthenticate is called with ids = [requestId] and content = SAMLResponse
\* and the result is Redirect(nextURL, {accessToken, refreshToken}); with no
\* state it is called with ids = [] and the result is Redirect(basePath + '/',
\* {accessToken, refreshToken}); a backend error gives Failed with that error
\* and no newState.
C13_AcsCallback ==
    \A p \in Procs :
        PayloadReached(p) =>
            /\ HasField(st[p], "requestId") /\ HasField(st[p], "nextURL") =>
                  /\ rpcs[p] # <<>>
                  /\ LastRpc(p).name = "samlAuthenticate"
                  /\ LastRpc(p).ids = <<st[p].fields["requestId"]>>
                  /\ LastRpc(p).arg = req[p].payload.SAMLResponse
                  /\ LastRpc(p).ok =>
                        /\ result[p].kind = "Redirect"
                        /\ result[p].redirectURL = st[p].fields["nextURL"]
                        /\ result[p].state = PairOf(LastRpc(p))
            /\ ~st[p].present =>
                  /\ IdPInitiated(p)
                  /\ LastRpc(p).arg = req[p].payload.SAMLResponse
            /\ rpcs[p] # <<>> /\ LastRpc(p).name = "samlAuthenticate" /\ ~LastRpc(p).ok =>
                  /\ result[p].kind = "Failed"
                  /\ result[p].error = LastRpc(p).err
                  /\ ~result[p].state.present

\* An SP initiated exchange that succeeded.
C13_Witness ==
    \E p \in Procs :
        /\ PayloadReached(p)
        /\ HasField(st[p], "requestId") /\ HasField(st[p], "nextURL")
        /\ result[p].kind = "Redirect"

\* C14: samlPrepare is never called for a request that is not
\* redirect-capable, and the handshake strategy then returns NotHandled; for a
\* redirect-capable request that reaches the handshake the result is
\* Redirect(redirect, {requestId: id, nextURL: basePath + path}) when
\* samlPrepare succeeds and Failed(err) when it fails; on a first visit (no
\* header, no state, no SAMLResponse) samlPrepare is the only backend call.
C14_Handshake ==
    \A p \in Procs :
        /\ ~req[p].canRedirect => Calls(p, "samlPrepare") = {}
        /\ Done(p) /\ "handshake" \in Names(p) =>
              IF ~req[p].canRedirect
              THEN /\ result[p] = NotHandled
                   /\ attempts[p][Len(attempts[p])] =
                         [name |-> "handshake", kind |-> "NotHandled", err |-> NoError]
              ELSE /\ rpcs[p] # <<>>
                   /\ LastRpc(p).name = "samlPrepare"
                   /\ Cardinality(Calls(p, "samlPrepare")) = 1
                   /\ IF LastRpc(p).ok
                      THEN /\ result[p].kind = "Redirect"
                           /\ result[p].redirectURL = LastRpc(p).redirect
                           /\ result[p].state =
                                 [present |-> TRUE,
                                  fields |-> [f \in {"requestId", "nextURL"} |->
                                                 IF f = "requestId" THEN LastRpc(p).id
                                                 ELSE <<"/", "k">> \o req[p].path]]
                      ELSE result[p] = Failed(LastRpc(p).err)
        /\ Done(p) /\ req[p].canRedirect /\ ~entryAuth[p].has /\ ~st[p].present
                   /\ ~req[p].payload.has =>
              /\ Names(p) = {"header", "payload", "handshake"}
              /\ Len(rpcs[p]) = 1

\* A first visit redirected to the identity provider.
C14_Witness ==
    \E p \in Procs :
        /\ Done(p) /\ req[p].canRedirect /\ ~entryAuth[p].has /\ ~st[p].present
        /\ ~req[p].payload.has
        /\ result[p].kind = "Redirect"

\* The request entered authenticate with a Bearer Authorization header.
BearerEntry(p) ==
    /\ entryAuth[p].has /\ entryAuth[p].v # <<>>
    /\ toLowerCase(SplitFirst(entryAuth[p].v)) = <<"b", "e", "a", "r", "e", "r">>

\* C15: with a Bearer Authorization header exactly one backend call, as-user
\* authenticate with the caller's header, is made; on success the result is
\* Succeeded(user) without newState and on any error, TokenExpired included,
\* Failed with that error; the state's accessToken is never injected and
\* neither refresh, payload nor handshake is attempted.
C15_BearerHeader ==
    \A p \in Procs :
        BearerEntry(p) /\ pc[p] \notin {"idle", "header"} =>
            /\ Done(p)
            /\ Names(p) = {"header"}
            /\ Len(rpcs[p]) = 1
            /\ rpcs[p][1].name = "authenticate" /\ rpcs[p][1].arg = entryAuth[p].v
            /\ req[p].authorization = entryAuth[p]
            /\ result[p] = IF rpcs[p][1].ok THEN Succeeded("U", NoState)
                           ELSE Failed(rpcs[p][1].err)

\* A Bearer header rejected with 401 although the state holds tokens.
C15_Witness ==
    \E p \in Procs :
        /\ BearerEntry(p) /\ Done(p)
        /\ result[p].kind = "Failed" /\ result[p].error.statusCode = 401
        /\ HasField(st[p], "accessToken") /\ HasField(st[p], "refreshToken")
        /\ req[p].canRedirect

\* deauthenticate has returned for call p.
Deauthenticated(p) == pc[p] = "deauthenticated"

HasSAMLRequest(p) == out[p].request.query.has /\ out[p].request.query.SAMLRequest # <<>>

\* C18: deauthenticate returns NotHandled, without any backend call, if and
\* only if the state has no accessToken (or is absent) and the request has no
\* SAMLRequest query; in every other case exactly one backend call is made and
\* the result is Redirect or Failed.
C18_NotHandledIff ==
    \A p \in Procs :
        Deauthenticated(p) =>
            IF ~HasField(out[p].state, "accessToken") /\ ~HasSAMLRequest(p)
            THEN out[p].result.kind = "NotHandled" /\ out[p].rpcs = <<>>
            ELSE out[p].result.kind \in {"Redirect", "Failed"} /\ Len(out[p].rpcs) = 1

\* An IdP initiated logout without a session.
C18_Witness ==
    \E p \in Procs :
        /\ Deauthenticated(p)
        /\ ~out[p].state.present /\ HasSAMLRequest(p)
        /\ out[p].result.kind = "Redirect"

\* C19: with a SAMLRequest query samlInvalidate is called with {queryString:
\* url.search without its leading '?', acs: ACS URL} and samlLogout is not
\* called, even if the state holds an accessToken; samlLogout with {token:
\* accessToken, refresh_token: refreshToken} is called only when there is no
\* SAMLRequest query and the state has an accessToken.
C19_SAMLRequestFirst ==
    \A p \in Procs :
        Deauthenticated(p) =>
            LET search == out[p].request.search
                sent == { out[p].rpcs[i].args : i \in 1..Len(out[p].rpcs) } IN
            /\ HasSAMLRequest(p) =>
                  sent = { [name |-> "samlInvalidate",
                            queryString |-> IF search = <<>> THEN <<>> ELSE SubSeq(search, 2, Len(search)),
                            acs |-> <<"p", ":", "h", ":", "9", "/", "k", "/", "s">>,
                            token |-> <<>>, refresh_token |-> <<>>] }
            /\ \A a \in sent :
                  a.name = "samlLogout" =>
                      /\ ~HasSAMLRequest(p) /\ HasField(out[p].state, "accessToken")
                      /\ a.token = out[p].state.fields["accessToken"]
                      /\ a.refresh_token = IF HasField(out[p].state, "refreshToken")
                                           THEN out[p].state.fields["refreshToken"] ELSE <<>>
            /\ ~HasSAMLRequest(p) /\ HasField(out[p].state, "accessToken") =>
                  \E a \in sent : a.name = "samlLogout"

\* An IdP initiated logout while the state holds an access token.
C19_Witness ==
    \E p \in Procs :
        /\ Deauthenticated(p)
        /\ HasSAMLRequest(p) /\ HasField(out[p].state, "accessToken")
        /\ out[p].request.search # <<>>
        /\ Len(out[p].rpcs) = 1

\* C20: when the logout call succeeds the result is a Redirect, to the
\* response's redirect if it is non-null and to '/logged_out' otherwise; when
\* it fails the result is Failed with the backend error.
C20_LogoutRedirect ==
    \A p \in Procs :
        Deauthenticated(p) /\ out[p].rpcs # <<>> =>
            LET rpc == out[p].rpcs[1] IN
            IF rpc.ok
            THEN /\ out[p].result.kind = "Redirect"
                 /\ out[p].result.redirectURL =
                       IF rpc.redirect.has THEN rpc.redirect.v
                       ELSE <<"/", "l", "o", "g", "g", "e", "d", "_", "o", "u", "t">>
            ELSE /\ out[p].result.kind = "Failed"
                 /\ out[p].result.error = rpc.err

\* A user initiated logout answered without redirect.
C20_Witness ==
    \E p \in Procs :
        /\ Deauthenticated(p) /\ out[p].rpcs # <<>>
        /\ out[p].rpcs[1].args.name = "samlLogout"
        /\ out[p].rpcs[1].ok /\ ~out[p].rpcs[1].redirect.has
        /\ out[p].result.kind = "Redirect"

\* The entries of session.sent are for distinct request ids.
SentOnce(sent) == \A i, j \in 1..Len(sent) : i # j => sent[i].id # sent[j].id

\* C16 as stated: with a caller that persists every newState, a requestId is
\* sent to samlAuthenticate in at most one call, and once a call has sent it
\* the persisted state no longer contains it.
C16_ConsumedOnce ==
    /\ SentOnce(session.sent)
    /\ \A i \in 1..Len(session.sent) : Get(session.cookie, "requestId") # session.sent[i].id

\* C16: with a caller that persists every newState, a requestId is sent to
\* samlAuthenticate by at most one call that succeeds and by no call after it,
\* and once the exchange has succeeded the persisted state no longer contains
\* it; a call whose exchange fails returns no newState, so that the requestId
\* stays in the persisted state and is sent again with the next SAMLResponse.
C16_ConsumedOnSuccess ==
    /\ \A i, j \in 1..Len(session.sent) :
          i < j /\ session.sent[i].id = session.sent[j].id => ~session.sent[i].ok
    /\ \A i \in 1..Len(session.sent) :
          session.sent[i].ok => Get(session.cookie, "requestId") # session.sent[i].id
    /\ Done(1) /\ rpcs[1] # <<>> /\ LastRpc(1).name = "samlAuthenticate" /\ ~LastRpc(1).ok
          /\ LastRpc(1).ids # <<>> =>
             /\ ~result[1].state.present
             /\ Get(session.cookie, "requestId") = LastRpc(1).ids[1]

\* A request id whose exchange failed and then succeeded.
C16_Witness ==
    \E i, j \in 1..Len(session.sent) :
        /\ i < j /\ session.sent[i].id = session.sent[j].id
        /\ ~session.sent[i].ok /\ session.sent[j].ok
        /\ ~HasField(session.cookie, "requestId")

\* C17: with a caller that persists every newState, when a handshake was
\* initiated by a request for path P and the next request carries the
\* SAMLResponse and samlAuthenticate succeeds, the redirect URL returned is the
\* nextURL stored at handshake time, base path + P, and the newState is the
\* token pair alone, which replaces the handshake state; a following request
\* without SAMLResponse is then authenticated via state.
C17_RoundTrip ==
    /\ session.last = "handshake" =>
          /\ session.origin \in SessionPaths
          /\ Get(session.cookie, "nextURL") = <<"/", "k">> \o session.origin
    /\ session.last = "handshake" /\ Done(1) /\ PayloadReached(1) /\ LastRpc(1).ok =>
          /\ LastRpc(1).name = "samlAuthenticate"
          /\ LastRpc(1).ids = <<Get(session.cookie, "requestId")>>
          /\ result[1].kind = "Redirect"
          /\ result[1].redirectURL = <<"/", "k">> \o session.origin
          /\ result[1].state = PairOf(LastRpc(1))
    /\ session.last = "acs" =>
          /\ session.cookie.present
          /\ DOMAIN session.cookie.fields = {"accessToken", "refreshToken"}
          /\ session.cookie.fields["accessToken"] \in es.access
    /\ session.last = "acs" /\ Done(1) /\ ~entryAuth[1].has /\ ~req[1].payload.has =>
          /\ attempts[1][2].name = "state" /\ attempts[1][2].kind # "NotHandled"
          /\ rpcs[1][1].by = "state"
          /\ rpcs[1][1].arg = <<"B", "e", "a", "r", "e", "r", " ">> \o session.cookie.fields["accessToken"]
          /\ rpcs[1][1].ok => result[1] = Succeeded("U", NoState) /\ Len(rpcs[1]) = 1

\* The request after the round trip has been authenticated via state.
C17_Witness ==
    /\ session.last = "acs" /\ session.served = 2
    /\ Done(1) /\ ~entryAuth[1].has /\ ~req[1].payload.has
    /\ req[1].path = <<"/", "b">>
    /\ result[1].kind = "Succeeded"
    /\ Names(1) = {"header", "state"}

\* The backend calls of call p that failed in strategy `by`.
FailedIn(p, by) == { i \in 1..Len(rpcs[p]) : rpcs[p][i].by = by /\ ~rpcs[p][i].ok }

\* The call was ended like a rejected refresh: by the handshake, or with the
\* badRequest error that replaces the backend's.
EndedAsRejected(p) ==
    IF req[p].canRedirect
    THEN attempts[p][Len(attempts[p])].name = "handshake" /\ LastRpc(p).name = "samlPrepare"
    ELSE result[p] = Failed([statusCode |-> 400, reason |-> "",
                             message |-> "Both access and refresh tokens are expired."])

\* C21: an error of the state strategy leads to the refresh strategy if and
\* only if its status is 401, or its status is 500 and its reason is 'token
\* document is missing and must be present'; an error of the refresh strategy
\* is handled as a rejected refresh if and only if its status is 400; every
\* other error is returned as it is in a Failed result.
C21_ErrorClassification ==
    \A p \in Procs :
        Done(p) =>
            /\ \A i \in FailedIn(p, "state") :
                  LET err == rpcs[p][i].err IN
                  IF \/ err.statusCode = 401
                     \/ err.statusCode = 500
                          /\ err.reason = "token document is missing and must be present"
                  THEN "refresh" \in Names(p)
                  ELSE "refresh" \notin Names(p) /\ result[p] = Failed(err) /\ Len(rpcs[p]) = i
            /\ \A i \in FailedIn(p, "refresh") :
                  LET err == rpcs[p][i].err IN
                  IF err.statusCode = 400
                  THEN EndedAsRejected(p)
                  ELSE ~EndedAsRejected(p) /\ result[p] = Failed(err) /\ Len(rpcs[p]) = i

\* A 403 that carries the reason of the missing token document ended the call.
C21_Witness ==
    \E p \in Procs :
        /\ Done(p)
        /\ \E i \in FailedIn(p, "state") :
              /\ rpcs[p][i].err.statusCode = 403
              /\ rpcs[p][i].err.reason = "token document is missing and must be present"
        /\ HasField(st[p], "refreshToken")
        /\ result[p].kind = "Failed"

\* getAccessToken succeeded in call p and the authenticate call made with the
\* new access token has failed.
RefreshedTokenFailed(p) ==
    \E i \in FailedIn(p, "refresh") :
        /\ i > 1 /\ rpcs[p][i].name = "authenticate"
        /\ rpcs[p][i - 1].name = "getAccessToken" /\ rpcs[p][i - 1].ok

\* The error of that authenticate call.
RefreshedTokenError(p) ==
    rpcs[p][CHOOSE i \in FailedIn(p, "refresh") : rpcs[p][i].name = "authenticate"].err

\* C22: when getAccessToken succeeded and the authenticate call with the new
\* access token failed, the result does not carry the new token pair, the
\* request has no Authorization header, and the result is Failed with that
\* error, or, for status 400, the handshake's result on a redirect-capable
\* request and Failed(badRequest('Both access and refresh tokens are expired.'))
\* otherwise; the refresh strategy returns a newState {accessToken,
\* refreshToken} only when both of its calls succeeded.
C22_RefreshedTokenRejected ==
    \A p \in Procs :
        /\ Done(p) /\ RefreshedTokenFailed(p) =>
              LET err == RefreshedTokenError(p) IN
              /\ ~req[p].authorization.has
              /\ result[p].state # TokenPair(fresh[p].accessToken, fresh[p].refreshToken)
              /\ ~HasField(result[p].state, "accessToken")
              /\ IF err.statusCode # 400 THEN result[p] = Failed(err)
                 ELSE IF ~req[p].canRedirect
                 THEN result[p] = Failed([statusCode |-> 400, reason |-> "",
                                          message |-> "Both access and refresh tokens are expired."])
                 ELSE /\ LastRpc(p).name = "samlPrepare"
                      /\ IF LastRpc(p).ok
                         THEN /\ result[p].kind = "Redirect"
                              /\ result[p].redirectURL = LastRpc(p).redirect
                              /\ DOMAIN result[p].state.fields = {"requestId", "nextURL"}
                         ELSE result[p] = Failed(LastRpc(p).err)
        /\ Done(p) /\ attempts[p] # <<>> /\ attempts[p][Len(attempts[p])].name = "refresh"
              /\ result[p].state.present =>
              /\ Len(rpcs[p]) = 3
              /\ rpcs[p][2].name = "getAccessToken" /\ rpcs[p][2].ok
              /\ rpcs[p][3].name = "authenticate" /\ rpcs[p][3].by = "refresh" /\ rpcs[p][3].ok
              /\ result[p] = Succeeded("U", PairOf(rpcs[p][2]))

\* The refreshed token was answered with 400 and the handshake was started again.
C22_Witness ==
    \E p \in Procs :
        /\ Done(p) /\ RefreshedTokenFailed(p)
        /\ RefreshedTokenError(p).statusCode = 400
        /\ result[p].kind = "Redirect"

\* Call p has returned Succeeded from strategy `name`.
SucceededThrough(p, name) ==
    /\ Done(p) /\ result[p].kind = "Succeeded"
    /\ attempts[p] # <<>> /\ attempts[p][Len(attempts[p])].name = name

\* C23: when authenticate returns Succeeded through the state strategy or the
\* refresh strategy, request.headers.authorization is 'Bearer ' followed by the
\* access token the backend accepted in the call: the state's accessToken for
\* the state strategy, the accessToken of the newState for the refresh strategy.
C23_HeaderOnSuccess ==
    \A p \in Procs :
        /\ SucceededThrough(p, "state") =>
              /\ req[p].authorization.has
              /\ req[p].authorization.v = <<"B", "e", "a", "r", "e", "r", " ">> \o st[p].fields["accessToken"]
              /\ LastRpc(p).ok /\ LastRpc(p).name = "authenticate"
              /\ LastRpc(p).arg = req[p].authorization.v
        /\ SucceededThrough(p, "refresh") =>
              /\ result[p].state.present
              /\ req[p].authorization.has
              /\ req[p].authorization.v =
                    <<"B", "e", "a", "r", "e", "r", " ">> \o result[p].state.fields["accessToken"]
              /\ LastRpc(p).ok /\ LastRpc(p).name = "authenticate"
              /\ LastRpc(p).arg = req[p].authorization.v

\* A request that came with an empty Authorization header and was authenticated
\* with a refreshed token.
C23_Witness ==
    \E p \in Procs :
        /\ SucceededThrough(p, "refresh")
        /\ entryAuth[p].has
        /\ req[p].authorization.v = <<"B", "e", "a", "r", "e", "r", " ", "a", "1">>

\* The backend traffic of one authenticate call is within the bounds.
BoundedTraffic(p) ==
    /\ Len(rpcs[p]) <= 4
    /\ Cardinality(Calls(p, "authenticate")) <= 2
    /\ \A name \in {"getAccessToken", "samlAuthenticate", "samlPrepare"} :
          Cardinality(Calls(p, name)) <= 1
    /\ \A i \in 1..Len(rpcs[p]) :
          rpcs[p][i].name \in {"authenticate", "getAccessToken", "samlAuthenticate", "samlPrepare"}

\* C24: when every backend call returns, every authenticate call terminates,
\* with one result that does not change any more, after at most four backend
\* calls (authenticate at most twice, getAccessToken, samlAuthenticate and
\* samlPrepare at most once each), and every deauthenticate call has returned
\* one result after at most one backend call.
C24_Termination ==
    /\ [](\A p \in Procs : BoundedTraffic(p))
    /\ [](\A p \in Procs : out[p].called => Deauthenticated(p) /\ Len(out[p].rpcs) <= 1
                                            /\ out[p].result.kind \in {"NotHandled", "Redirect", "Failed"})
    /\ \A p \in Procs : (pc[p] \notin {"idle", "deauthenticated"}) ~> Done(p)
    /\ \A p \in Procs : [](Done(p) => [](Done(p) /\ result[p].kind # "Running"))
    /\ [][\A p \in Procs : Done(p) => result'[p] = result[p] /\ rpcs'[p] = rpcs[p]]_vars

\* A call that ended after four backend calls.
C24_Witness ==
    \E p \in Procs :
        /\ Done(p) /\ Len(rpcs[p]) = 4
        /\ Cardinality(Calls(p, "authenticate")) = 2

====
